---- MODULE Spec2Model ----
(***************************************************************************)
(* A model of server.js: the file-sharing server's in-memory record list   *)
(* (fileDatabase), its JSON mirror (database.json), the uploads directory  *)
(* and the request handlers that act on them.                              *)
(*                                                                         *)
(* Node runs every handler body to completion before the next event, so    *)
(* each route handler is one action; an upload is multer's write of the    *)
(* blob followed by its handler.  The read stream of a direct download     *)
(* opens and ends in later events, which are actions of their own.         *)
(***************************************************************************)
EXTENDS Integers, Sequences, FiniteSets, TLC

VARIABLES
    fileDatabase,   \* the in-memory record sequence (line 45)
    database_json,  \* the file database.json: absent, malformed, or a document
    uploads,        \* the uploads directory: storedName -> bytes
    now,            \* the wall clock, in milliseconds
    streams,        \* read streams of direct downloads that have not ended
    running,        \* FALSE after an uncaught exception ended the process
    resp,           \* the last response sent
    served          \* requests handled so far

vars == <<fileDatabase, database_json, uploads, now, streams, running, resp, served>>

(***************************************************************************)
(* Bounds of the model.                                                    *)
(***************************************************************************)
NumIds == 2        \* distinct strings shortid.generate() can return
MaxFiles == 2      \* records in fileDatabase
MaxCount == 2      \* downloadCount values explored
MaxDrift == 1      \* milliseconds explored around each clock landmark
MaxStreams == 1    \* direct downloads streaming at once
MaxRequests == 3   \* requests handled in one behaviour

(***************************************************************************)
(* Program constants.                                                      *)
(***************************************************************************)
SevenDays == 7 * 24 * 60 * 60 * 1000

Ids == 1 .. NumIds

\* The files clients upload: originalname (base and extension), mimetype, bytes.
ClientFiles ==
    { [originalname |-> [base |-> "a", ext |-> ".txt"],
       mimetype |-> "text/plain",
       data |-> <<0, 1, 2, 3, 4, 5, 6, 7, 8, 9>>] }

\* path.extname(file.originalname)
Extname(name) == name.ext

(***************************************************************************)
(* Dates.  A Date object and its ISO-8601 string are different values;     *)
(* both carry the time in milliseconds.                                    *)
(***************************************************************************)
NewDate(ms) == [type |-> "Date", ms |-> ms]

ToISOString(d) == [type |-> "string", ms |-> d.ms]

\* new Date(x) for x a Date or an ISO string
ParseDate(x) == [type |-> "Date", ms |-> x.ms]

\* JSON.stringify of one record: a Date is written by its toJSON, an ISO string
JSONstringifyRecord(r) ==
    [r EXCEPT !.expiresAt = IF r.expiresAt.type = "Date"
                            THEN ToISOString(r.expiresAt)
                            ELSE r.expiresAt]

\* JSON.stringify(fileDatabase, null, 2)
JSONstringify(db) == [i \in 1 .. Len(db) |-> JSONstringifyRecord(db[i])]

\* the contents database.json can have
Absent == [state |-> "absent", doc |-> <<>>]
Malformed == [state |-> "malformed", doc |-> <<>>]
Document(text) == [state |-> "ok", doc |-> text]

\* lines 45-51: read and parse database.json, [] when that throws
LoadDatabase(file) == IF file.state = "ok" THEN file.doc ELSE <<>>

\* the ways fs.writeFileSync can end
SaveOutcomes == {"ok", "throw", "truncate"}

\* lines 53-55: the file after saveDatabase() on db; a failed write either
\* leaves the file alone or leaves it truncated
SaveDatabase(db, out) ==
    CASE out = "ok" -> Document(JSONstringify(db))
      [] out = "throw" -> database_json
      [] out = "truncate" -> Malformed

(***************************************************************************)
(* URLs and routing.  A path is its sequence of segments.                  *)
(***************************************************************************)
DownloadUrl(id) == <<"d", id>>

DirectDownloadUrl(id) == <<"download", id>>

NoUrl == <<>>

\* the route table of app: which handler a request reaches
Route(method, path) ==
    CASE method = "POST" /\ path = <<"api", "upload">> -> "upload"
      [] method = "GET" /\ Len(path) = 2 /\ path[1] = "d" -> "landing"
      [] method = "GET" /\ Len(path) = 3 /\ path[1] = "api" /\ path[2] = "download" -> "direct"
      [] method = "GET" /\ path = <<"api", "files">> -> "files"
      [] method = "DELETE" /\ Len(path) = 3 /\ path[1] = "api" /\ path[2] = "files" -> "delete"
      [] OTHER -> "none"

Response(op, status, id, url, len, body) ==
    [op |-> op, status |-> status, id |-> id, url |-> url, len |-> len, body |-> body]

NoResponse == Response("none", 0, 0, NoUrl, 0, <<>>)

\* one more request is taken up
Serve ==
    /\ running
    /\ served < MaxRequests
    /\ served' = served + 1

(***************************************************************************)
(* Array helpers.                                                          *)
(***************************************************************************)
\* findIndex whose -1 is used as an index: it addresses the last element
FindIndexOrLast(db, id) ==
    IF \E i \in 1 .. Len(db) : db[i].id = id
    THEN CHOOSE i \in 1 .. Len(db) : db[i].id = id /\ \A j \in 1 .. (i - 1) : db[j].id # id
    ELSE Len(db)

\* fileDatabase.findIndex(f => f.id === id), 0 for -1
FindIndex(db, id) ==
    IF \E i \in 1 .. Len(db) : db[i].id = id
    THEN CHOOSE i \in 1 .. Len(db) : db[i].id = id /\ \A j \in 1 .. (i - 1) : db[j].id # id
    ELSE 0

\* fileDatabase.splice(index, 1)
Splice(db, index) == [i \in 1 .. (Len(db) - 1) |-> IF i < index THEN db[i] ELSE db[i + 1]]

\* a visit that also moves the expiry on
IncrementAndExtend(db, index) ==
    [db EXCEPT ![index].downloadCount = @ + 1,
               ![index].expiresAt = [type |-> "Date", ms |-> @.ms + 1]]

\* the counter bumped twice for one visit
IncrementDownloadCountTwice(db, index) == [db EXCEPT ![index].downloadCount = @ + 2]

\* line 143: fileInfo.downloadCount++ on the record found
IncrementDownloadCount(db, index) == [db EXCEPT ![index].downloadCount = @ + 1]

\* the expiry test rejecting a request at the very instant of expiresAt
ExpiredNonStrict(fileInfo, t) == ParseDate(fileInfo.expiresAt).ms <= NewDate(t).ms

\* the expiry test with its comparison turned around
ExpiredReversed(fileInfo, t) == ParseDate(fileInfo.expiresAt).ms > NewDate(t).ms

\* line 123: the expiry test of the landing page
Expired(fileInfo, t) == ParseDate(fileInfo.expiresAt).ms < NewDate(t).ms

\* the clock values the model explores: up to MaxDrift milliseconds after
\* time 0 and after the end of the first retention window
Horizon == SevenDays + MaxDrift

Explored(t) == t <= Horizon /\ t % SevenDays <= MaxDrift

Init ==
    /\ fileDatabase = LoadDatabase(Absent)
    /\ database_json = Absent
    /\ uploads = [n \in {} |-> <<>>]
    /\ now = 0
    /\ streams = {}
    /\ running = TRUE
    /\ resp = NoResponse
    /\ served = 0

\* time passes between two events
Tick(d) ==
    /\ Explored(now + d)
    /\ now' = now + d
    /\ UNCHANGED <<fileDatabase, database_json, uploads, streams, running, resp, served>>

(***************************************************************************)
(* The uploads directory.                                                  *)
(***************************************************************************)
\* fs.existsSync(path.join(UPLOADS_DIR, name))
ExistsSync(dir, name) == name \in DOMAIN dir

\* a file written under name, replacing what was there
WriteFile(dir, name, data) ==
    [n \in DOMAIN dir \cup {name} |-> IF n = name THEN data ELSE dir[n]]

\* fs.unlinkSync(path.join(UPLOADS_DIR, name))
UnlinkSync(dir, name) == [n \in DOMAIN dir \ {name} |-> dir[n]]

(***************************************************************************)
(* POST /api/upload                                                        *)
(***************************************************************************)
\* multer.diskStorage (lines 21-31): the name the blob is written under keeps
\* the extension; req.file as the handler sees it
MulterFile(f, uniqueId) ==
    [originalname |-> f.originalname,
     filename |-> [uid |-> uniqueId, ext |-> Extname(f.originalname)],
     size |-> Len(f.data),
     mimetype |-> f.mimetype]

\* lines 64-66: a request without a file part
PostUploadNoFile ==
    /\ Serve
    /\ resp' = Response("upload", 400, 0, NoUrl, 0, <<>>)
    /\ UNCHANGED <<fileDatabase, database_json, uploads, now, streams, running>>

\* the record created with the upload itself counted as a download
NewFileInfoCounted(file, id, t1, t2) ==
    [id |-> id,
     filename |-> file.originalname,
     storedName |-> file.filename,
     size |-> file.size,
     mimeType |-> file.mimetype,
     uploadDate |-> ToISOString(NewDate(t1)),
     downloadCount |-> 1,
     expiresAt |-> NewDate(t2 + SevenDays)]

\* the record with the name on disk in place of the client's name
NewFileInfoStoredName(file, id, t1, t2) ==
    [id |-> id,
     filename |-> file.filename,
     storedName |-> file.filename,
     size |-> file.size,
     mimeType |-> file.mimetype,
     uploadDate |-> ToISOString(NewDate(t1)),
     downloadCount |-> 0,
     expiresAt |-> NewDate(t2 + SevenDays)]

\* lines 68-78: the record built for req.file; the clock is read twice, for
\* uploadDate at t1 and for expiresAt at t2
NewFileInfo(file, id, t1, t2) ==
    [id |-> id,
     filename |-> file.originalname,
     storedName |-> file.filename,
     size |-> file.size,
     mimeType |-> file.mimetype,
     uploadDate |-> ToISOString(NewDate(t1)),
     downloadCount |-> 0,
     expiresAt |-> NewDate(t2 + SevenDays)]

\* the handler saving the document before it pushes the record
PostUploadSaveFirst(f, uniqueId, id, drift, out) ==
    /\ Serve
    /\ Route("POST", <<"api", "upload">>) = "upload"
    /\ Len(fileDatabase) < MaxFiles
    /\ Explored(now + drift)
    /\ LET file == MulterFile(f, uniqueId)
           fileInfo == NewFileInfo(file, id, now, now + drift)
       IN /\ uploads' = WriteFile(uploads, file.filename, f.data)
          /\ database_json' = SaveDatabase(fileDatabase, out)
          /\ fileDatabase' = Append(fileDatabase, fileInfo)
          /\ resp' = IF out = "ok"
                     THEN Response("upload", 200, fileInfo.id, DirectDownloadUrl(fileInfo.id), 0, <<>>)
                     ELSE Response("upload", 500, 0, NoUrl, 0, <<>>)
    /\ now' = now + drift
    /\ UNCHANGED <<streams, running>>

\* lines 61-96, after multer has stored the blob; uniqueId and id are what the
\* two calls of shortid.generate() return, drift the time that passes between
\* the two clock readings
PostUpload(f, uniqueId, id, drift, out) ==
    /\ Serve
    /\ Route("POST", <<"api", "upload">>) = "upload"
    /\ Len(fileDatabase) < MaxFiles
    /\ Explored(now + drift)
    /\ LET file == MulterFile(f, uniqueId)
           fileInfo == NewFileInfo(file, id, now, now + drift)
           db == Append(fileDatabase, fileInfo)
       IN /\ uploads' = WriteFile(uploads, file.filename, f.data)
          /\ fileDatabase' = db
          /\ database_json' = SaveDatabase(db, out)
          /\ resp' = IF out = "ok"
                     THEN Response("upload", 200, fileInfo.id, DirectDownloadUrl(fileInfo.id), 0, <<>>)
                     ELSE Response("upload", 500, 0, NoUrl, 0, <<>>)
    /\ now' = now + drift
    /\ UNCHANGED <<streams, running>>

(***************************************************************************)
(* GET /d/:id                                                              *)
(***************************************************************************)
\* lines 99-366
GetLanding(id, out) ==
    /\ Serve
    /\ Route("GET", DownloadUrl(id)) = "landing"
    /\ LET index == FindIndex(fileDatabase, id)
       IN IF index = 0
          THEN /\ resp' = Response("landing", 404, id, NoUrl, 0, <<>>)
               /\ UNCHANGED <<fileDatabase, database_json>>
          ELSE IF Expired(fileDatabase[index], now)
          THEN /\ resp' = Response("landing", 410, id, NoUrl, 0, <<>>)
               /\ UNCHANGED <<fileDatabase, database_json>>
          ELSE /\ fileDatabase[index].downloadCount < MaxCount
               /\ LET db == IncrementDownloadCount(fileDatabase, index)
                  IN /\ fileDatabase' = db
                     /\ database_json' = SaveDatabase(db, out)
               /\ resp' = IF out = "ok"
                          THEN Response("landing", 200, id, <<"api", "download", id>>, 0, <<>>)
                          ELSE Response("landing", 500, id, NoUrl, 0, <<>>)
    /\ UNCHANGED <<uploads, now, streams, running>>

(***************************************************************************)
(* GET /api/download/:id                                                   *)
(***************************************************************************)
\* the direct download enforcing the expiry as the landing page does
DirectDownloadExpiry(id) ==
    /\ Serve
    /\ LET index == FindIndex(fileDatabase, id)
       IN IF index = 0
          THEN /\ resp' = Response("direct", 404, id, NoUrl, 0, <<>>)
               /\ UNCHANGED streams
          ELSE IF Expired(fileDatabase[index], now)
          THEN /\ resp' = Response("direct", 410, id, NoUrl, 0, <<>>)
               /\ UNCHANGED streams
          ELSE IF ~ExistsSync(uploads, fileDatabase[index].storedName)
          THEN /\ resp' = Response("direct", 404, id, NoUrl, 0, <<>>)
               /\ UNCHANGED streams
          ELSE LET fileInfo == fileDatabase[index]
                   fileStream == [id |-> id,
                                  path |-> fileInfo.storedName,
                                  contentType |-> fileInfo.mimeType,
                                  contentLength |-> fileInfo.size,
                                  phase |-> "created",
                                  data |-> <<>>]
               IN /\ Cardinality(streams) < MaxStreams
                  /\ fileStream \notin streams
                  /\ streams' = streams \cup {fileStream}
                  /\ UNCHANGED resp
    /\ UNCHANGED <<fileDatabase, database_json, uploads, now, running>>

\* the direct download counting its hit as the landing page does
DirectDownloadCounting(id) ==
    /\ Serve
    /\ LET index == FindIndex(fileDatabase, id)
       IN IF index = 0
          THEN /\ resp' = Response("direct", 404, id, NoUrl, 0, <<>>)
               /\ UNCHANGED <<streams, fileDatabase, database_json>>
          ELSE IF ~ExistsSync(uploads, fileDatabase[index].storedName)
          THEN /\ resp' = Response("direct", 404, id, NoUrl, 0, <<>>)
               /\ UNCHANGED <<streams, fileDatabase, database_json>>
          ELSE LET fileInfo == fileDatabase[index]
                   fileStream == [id |-> id,
                                  path |-> fileInfo.storedName,
                                  contentType |-> fileInfo.mimeType,
                                  contentLength |-> fileInfo.size,
                                  phase |-> "created",
                                  data |-> <<>>]
                   db == IncrementDownloadCount(fileDatabase, index)
               IN /\ Cardinality(streams) < MaxStreams
                  /\ fileStream \notin streams
                  /\ fileInfo.downloadCount < MaxCount
                  /\ streams' = streams \cup {fileStream}
                  /\ fileDatabase' = db
                  /\ database_json' = SaveDatabase(db, "ok")
                  /\ UNCHANGED resp
    /\ UNCHANGED <<uploads, now, running>>

\* lines 368-395: the handler; on success it only sets the headers and creates
\* the read stream, which opens and is piped in later events
DirectDownload(id) ==
    /\ Serve
    /\ LET index == FindIndex(fileDatabase, id)
       IN IF index = 0
          THEN /\ resp' = Response("direct", 404, id, NoUrl, 0, <<>>)
               /\ UNCHANGED streams
          ELSE IF ~ExistsSync(uploads, fileDatabase[index].storedName)
          THEN /\ resp' = Response("direct", 404, id, NoUrl, 0, <<>>)
               /\ UNCHANGED streams
          ELSE LET fileInfo == fileDatabase[index]
                   fileStream == [id |-> id,
                                  path |-> fileInfo.storedName,
                                  contentType |-> fileInfo.mimeType,
                                  contentLength |-> fileInfo.size,
                                  phase |-> "created",
                                  data |-> <<>>]
               IN /\ Cardinality(streams) < MaxStreams
                  /\ fileStream \notin streams
                  /\ streams' = streams \cup {fileStream}
                  /\ UNCHANGED resp
    /\ UNCHANGED <<fileDatabase, database_json, uploads, now, running>>

GetApiDownload(id) ==
    /\ Route("GET", <<"api", "download", id>>) = "direct"
    /\ DirectDownload(id)

\* a request no route matches: express answers 404
Unrouted(path) ==
    /\ Serve
    /\ resp' = Response("unrouted", 404, 0, path, 0, <<>>)
    /\ UNCHANGED <<fileDatabase, database_json, uploads, now, streams, running>>

\* the client requests the directDownloadUrl of the upload response it holds
GetDirectDownloadUrl ==
    /\ resp.op = "upload"
    /\ resp.status = 200
    /\ IF Route("GET", resp.url) = "direct"
       THEN DirectDownload(resp.url[3])
       ELSE Unrouted(resp.url)

\* the read stream opens its file: with the blob gone it emits 'error', which
\* has no listener and ends the process
StreamOpen(s) ==
    /\ running
    /\ s \in streams
    /\ s.phase = "created"
    /\ IF ExistsSync(uploads, s.path)
       THEN /\ streams' = (streams \ {s}) \cup {[s EXCEPT !.phase = "open", !.data = uploads[s.path]]}
            /\ UNCHANGED running
       ELSE /\ running' = FALSE
            /\ streams' = {}
    /\ UNCHANGED <<fileDatabase, database_json, uploads, now, resp, served>>

\* fileStream.pipe(res) has written the bytes and ended the response
StreamEnd(s) ==
    /\ running
    /\ s \in streams
    /\ s.phase = "open"
    /\ streams' = streams \ {s}
    /\ resp' = Response("direct", 200, s.id, NoUrl, s.contentLength, s.data)
    /\ UNCHANGED <<fileDatabase, database_json, uploads, now, running, served>>

(***************************************************************************)
(* GET /api/files                                                          *)
(***************************************************************************)
\* lines 398-412: the body of the listing
ApiFiles ==
    [success |-> TRUE,
     count |-> Len(fileDatabase),
     files |-> [i \in 1 .. Len(fileDatabase) |->
                  LET f == fileDatabase[i]
                  IN [id |-> f.id,
                      filename |-> f.filename,
                      size |-> f.size,
                      uploadDate |-> f.uploadDate,
                      downloadCount |-> f.downloadCount,
                      expiresAt |-> JSONstringifyRecord(f).expiresAt,
                      downloadUrl |-> DownloadUrl(f.id)]]]

GetFiles ==
    /\ Serve
    /\ Route("GET", <<"api", "files">>) = "files"
    /\ resp' = Response("files", 200, 0, NoUrl, ApiFiles.count, <<>>)
    /\ UNCHANGED <<fileDatabase, database_json, uploads, now, streams, running>>

(***************************************************************************)
(* DELETE /api/files/:id                                                   *)
(***************************************************************************)
DeleteOutcomes == SaveOutcomes \cup {"unlink_throw"}

\* lines 415-440
DeleteFile(id, out) ==
    /\ Serve
    /\ Route("DELETE", <<"api", "files", id>>) = "delete"
    /\ LET index == FindIndex(fileDatabase, id)
       IN IF index = 0
          THEN /\ resp' = Response("delete", 404, id, NoUrl, 0, <<>>)
               /\ UNCHANGED <<fileDatabase, database_json, uploads>>
          ELSE LET fileInfo == fileDatabase[index]
                   present == ExistsSync(uploads, fileInfo.storedName)
               IN IF out = "unlink_throw"
                  THEN /\ present
                       /\ resp' = Response("delete", 500, id, NoUrl, 0, <<>>)
                       /\ UNCHANGED <<fileDatabase, database_json, uploads>>
                  ELSE /\ uploads' = IF present
                                     THEN UnlinkSync(uploads, fileInfo.storedName)
                                     ELSE uploads
                       /\ LET db == Splice(fileDatabase, index)
                          IN /\ fileDatabase' = db
                             /\ database_json' = SaveDatabase(db, out)
                       /\ resp' = IF out = "ok"
                                  THEN Response("delete", 200, id, NoUrl, 0, <<>>)
                                  ELSE Response("delete", 500, id, NoUrl, 0, <<>>)
    /\ UNCHANGED <<now, streams, running>>

(***************************************************************************)
(* The process.                                                            *)
(***************************************************************************)
\* a start without the try/catch around the load: a document that is missing
\* or does not parse ends the process
RestartAbortsOnBadDocument ==
    /\ fileDatabase' = LoadDatabase(database_json)
    /\ streams' = {}
    /\ running' = (database_json.state = "ok")
    /\ UNCHANGED <<database_json, uploads, now, resp, served>>

\* the process is started (again): lines 44-51 run on the file as it is
Restart ==
    /\ fileDatabase' = LoadDatabase(database_json)
    /\ streams' = {}
    /\ running' = TRUE
    /\ UNCHANGED <<database_json, uploads, now, resp, served>>

Next ==
    \/ \E d \in {1, SevenDays} : Tick(d)
    \/ PostUploadNoFile
    \/ \E f \in ClientFiles, uniqueId \in Ids, id \in Ids, drift \in 0 .. MaxDrift, out \in SaveOutcomes :
           PostUpload(f, uniqueId, id, drift, out)
    \/ \E id \in Ids, out \in SaveOutcomes : GetLanding(id, out)
    \/ \E id \in Ids : GetApiDownload(id)
    \/ GetDirectDownloadUrl
    \/ \E s \in streams : StreamOpen(s)
    \/ \E s \in streams : StreamEnd(s)
    \/ GetFiles
    \/ \E id \in Ids, out \in DeleteOutcomes : DeleteFile(id, out)
    \/ Restart

Spec == Init /\ [][Next]_vars

(***************************************************************************)
(* Properties.                                                             *)
(***************************************************************************)
\* the indices of the records of db with this id
WithId(db, id) == {i \in 1 .. Len(db) : db[i].id = id}

\* the record a lookup by id finds: the first with this id
FirstWithId(db, id) == CHOOSE i \in WithId(db, id) : \A j \in WithId(db, id) : i <= j

\* the records other than the one at index are as they were
OthersUnchanged(index) ==
    /\ Len(fileDatabase') = Len(fileDatabase)
    /\ \A j \in 1 .. Len(fileDatabase) : j # index => fileDatabase'[j] = fileDatabase[j]

\* C1: a landing-page request that finds a record whose expiresAt is not in
\* the past raises that record's downloadCount by exactly 1 and changes
\* nothing else in the store, whether or not the save succeeds; so n visits
\* with nothing in between raise it by n.
C1_LandingVisitCountsOnce ==
    [][\A id \in Ids, out \in SaveOutcomes :
         (/\ GetLanding(id, out)
          /\ WithId(fileDatabase, id) # {}
          /\ fileDatabase[FirstWithId(fileDatabase, id)].expiresAt.ms >= now)
         => LET index == FirstWithId(fileDatabase, id)
            IN /\ OthersUnchanged(index)
               /\ fileDatabase'[index] =
                    [fileDatabase[index] EXCEPT !.downloadCount = @ + 1]]_vars

\* two visits after the upload have given downloadCount = 2
C1_Witness ==
    /\ resp.op = "landing"
    /\ resp.status = 200
    /\ served = 3
    /\ Len(fileDatabase) = 1
    /\ fileDatabase[1].id = resp.id
    /\ fileDatabase[1].downloadCount = 2

\* C2: a landing-page request for a record whose expiresAt is earlier than the
\* current time is answered 410 and leaves the store, the document and the
\* uploads directory as they were.
C2_ExpiredLandingChangesNothing ==
    [][\A id \in Ids, out \in SaveOutcomes :
         (/\ GetLanding(id, out)
          /\ WithId(fileDatabase, id) # {}
          /\ fileDatabase[FirstWithId(fileDatabase, id)].expiresAt.ms < now)
         => /\ resp'.op = "landing"
            /\ resp'.status = 410
            /\ UNCHANGED <<fileDatabase, database_json, uploads>>]_vars

\* an expired record has been asked for and its counter stands where it was
C2_Witness ==
    /\ resp.op = "landing"
    /\ resp.status = 410
    /\ \E i \in 1 .. Len(fileDatabase) :
         /\ fileDatabase[i].id = resp.id
         /\ fileDatabase[i].expiresAt.ms < now
         /\ fileDatabase[i].downloadCount = 1

\* C3: once DELETE /api/files/{id} has succeeded for an existing record, no
\* record with that id is left in the store or in the document, the blob of
\* the deleted record is gone from the uploads directory, and so a later
\* lookup of the id finds nothing and is answered 404.
C3_DeletedIdIsGone ==
    [][\A id \in Ids, out \in DeleteOutcomes :
         (/\ DeleteFile(id, out)
          /\ WithId(fileDatabase, id) # {}
          /\ resp'.status = 200)
         => /\ WithId(fileDatabase', id) = {}
            /\ WithId(LoadDatabase(database_json'), id) = {}
            /\ ~ExistsSync(uploads', fileDatabase[FirstWithId(fileDatabase, id)].storedName)]_vars

\* C4: while the process runs and no handler is executing, the document on
\* disk holds exactly the in-memory records, so a restart reloads them.
C4_DocumentMirrorsStore ==
    running => LoadDatabase(database_json) = JSONstringify(fileDatabase)

\* the entry of the listing for the record a successful upload has appended
\* carries the upload's filename and size, downloadCount 0 and an expiresAt
\* that is uploadDate plus 7 days plus the clock's advance during the handler
ListsUpload(f, listed) ==
    /\ listed.filename = f.originalname
    /\ listed.size = Len(f.data)
    /\ listed.downloadCount = 0
    /\ listed.uploadDate = ToISOString(NewDate(now))
    /\ listed.expiresAt = ToISOString(NewDate(now' + SevenDays))
    /\ listed.expiresAt.ms = listed.uploadDate.ms + SevenDays + (now' - now)

\* the listing after a step has the entries it had before, and one more
ListsOneMore ==
    /\ ApiFiles'.count = ApiFiles.count + 1
    /\ Len(ApiFiles'.files) = ApiFiles.count + 1
    /\ \A i \in 1 .. ApiFiles.count : ApiFiles'.files[i] = ApiFiles.files[i]

\* C5 (amended): after a successful upload the listing has exactly one record
\* more; the new entry carries the uploaded file's filename and size,
\* downloadCount = 0 and expiresAt = uploadDate + 7 days + the time that
\* passed between the handler's two clock readings; the listing has no
\* mimeType field, the uploaded mimeType is kept in the stored record.
C5_UploadListsOneNewRecord ==
    [][\A f \in ClientFiles, uniqueId \in Ids, id \in Ids, drift \in 0 .. MaxDrift :
         PostUpload(f, uniqueId, id, drift, "ok")
         => LET listed == ApiFiles'.files[ApiFiles.count + 1]
            IN /\ ListsOneMore
               /\ listed.id = id
               /\ ListsUpload(f, listed)
               /\ "mimeType" \notin DOMAIN listed
               /\ fileDatabase'[Len(fileDatabase')].mimeType = f.mimetype]_vars

\* C5 as claimed: the new listed record also carries the mimeType, and its
\* expiresAt is exactly uploadDate plus 7 days
C5_AsClaimed ==
    [][\A f \in ClientFiles, uniqueId \in Ids, id \in Ids, drift \in 0 .. MaxDrift :
         PostUpload(f, uniqueId, id, drift, "ok")
         => LET listed == ApiFiles'.files[ApiFiles.count + 1]
            IN /\ ListsOneMore
               /\ listed.filename = f.originalname
               /\ listed.size = Len(f.data)
               /\ listed.downloadCount = 0
               /\ listed.expiresAt.ms = listed.uploadDate.ms + SevenDays
               /\ "mimeType" \in DOMAIN listed
               /\ listed.mimeType = f.mimetype]_vars

\* an upload during which the clock moved has succeeded and is listed last
C5_Witness ==
    /\ resp.op = "upload"
    /\ resp.status = 200
    /\ ApiFiles.count = 2
    /\ LET listed == ApiFiles.files[ApiFiles.count]
       IN /\ listed.id = resp.id
          /\ listed.downloadCount = 0
          /\ listed.size = 10
          /\ listed.expiresAt.ms = listed.uploadDate.ms + SevenDays + 1

\* path ends with the segments of suffix
EndsWith(path, suffix) ==
    /\ Len(path) >= Len(suffix)
    /\ SubSeq(path, Len(path) - Len(suffix) + 1, Len(path)) = suffix

\* C6: the directDownloadUrl of a successful upload ends in
\* /api/download/{id} for the new record's id, and a GET of it reaches the
\* direct-download handler.
C6_DirectUrlReachesDownload ==
    (resp.op = "upload" /\ resp.status = 200)
    => /\ EndsWith(resp.url, <<"api", "download", resp.id>>)
       /\ Route("GET", resp.url) = "direct"

\* every record of db has its blob in the uploads directory
BlobsPresent(db) == \A i \in 1 .. Len(db) : ExistsSync(uploads, db[i].storedName)

\* C7: every record, in memory and in the document as a restart would reload
\* it, has its blob in the uploads directory.
C7_RecordHasBlob ==
    /\ running => BlobsPresent(fileDatabase)
    /\ BlobsPresent(LoadDatabase(database_json))

\* C8: no two records of the store have the same id.
C8_IdsUnique ==
    \A i, j \in 1 .. Len(fileDatabase) :
        fileDatabase[i].id = fileDatabase[j].id => i = j

\* C9: a landing-page, direct-download or delete request for an id that
\* matches no record is answered 404 and leaves the store, the document and
\* the uploads directory as they were.
C9_UnknownIdIs404 ==
    [][\A id \in Ids :
         (/\ WithId(fileDatabase, id) = {}
          /\ \/ \E out \in SaveOutcomes : GetLanding(id, out)
             \/ GetApiDownload(id)
             \/ \E out \in DeleteOutcomes : DeleteFile(id, out))
         => /\ resp'.status = 404
            /\ resp'.id = id
            /\ UNCHANGED <<fileDatabase, database_json, uploads>>]_vars

\* a delete for an id no record has was answered 404 with a record in the store
C9_Witness ==
    /\ resp.op = "delete"
    /\ resp.status = 404
    /\ Len(fileDatabase) > 0
    /\ WithId(fileDatabase, resp.id) = {}
    /\ BlobsPresent(fileDatabase)
    /\ LoadDatabase(database_json) = JSONstringify(fileDatabase)

\* C10: a direct download, from its handler to the end of its stream, leaves
\* the store and the document as they were.
C10_DirectDownloadChangesNoRecord ==
    [][(\/ \E id \in Ids : GetApiDownload(id)
        \/ \E s \in streams : StreamOpen(s) \/ StreamEnd(s))
       => UNCHANGED <<fileDatabase, database_json>>]_vars

\* a direct download has streamed the blob and the record's counter is still 0
C10_Witness ==
    /\ resp.op = "direct"
    /\ resp.status = 200
    /\ Len(resp.body) = 10
    /\ resp.len = 10
    /\ \E i \in 1 .. Len(fileDatabase) :
         /\ fileDatabase[i].id = resp.id
         /\ fileDatabase[i].downloadCount = 0
         /\ database_json = Document(JSONstringify(fileDatabase))

\* the counters of all records are as they were
CountsUnchanged ==
    /\ Len(fileDatabase') = Len(fileDatabase)
    /\ \A i \in 1 .. Len(fileDatabase) :
         fileDatabase'[i].downloadCount = fileDatabase[i].downloadCount

\* an upload creates its record with downloadCount 0, and a landing-page
\* request on an unexpired record adds exactly 1
CountedFromZeroByLanding ==
    /\ \A f \in ClientFiles, uniqueId \in Ids, id \in Ids, drift \in 0 .. MaxDrift, out \in SaveOutcomes :
         PostUpload(f, uniqueId, id, drift, out)
         => fileDatabase'[Len(fileDatabase')].downloadCount = 0
    /\ \A id \in Ids, out \in SaveOutcomes :
         (/\ GetLanding(id, out)
          /\ WithId(fileDatabase, id) # {}
          /\ fileDatabase[FirstWithId(fileDatabase, id)].expiresAt.ms >= now)
         => fileDatabase'[FirstWithId(fileDatabase, id)].downloadCount
              = fileDatabase[FirstWithId(fileDatabase, id)].downloadCount + 1

\* the direct-download handler has found the record and its blob and has
\* created the stream that will answer 200
DirectHit(id) ==
    /\ GetApiDownload(id)
    /\ WithId(fileDatabase, id) # {}
    /\ ExistsSync(uploads, fileDatabase[FirstWithId(fileDatabase, id)].storedName)
    /\ streams' # streams

\* C11 (amended): downloadCount starts at 0 and is incremented exactly once for
\* every landing-page request on an unexpired record; a direct-download
\* request, successful or not, leaves every counter as it was.
C11_CountedByLandingOnly ==
    [][/\ CountedFromZeroByLanding
       /\ \A id \in Ids : GetApiDownload(id) => CountsUnchanged]_vars

\* C11 as claimed: a successful direct-download hit on an unexpired record
\* is counted too
C11_AsClaimed ==
    [][/\ CountedFromZeroByLanding
       /\ \A id \in Ids :
            (/\ DirectHit(id)
             /\ fileDatabase[FirstWithId(fileDatabase, id)].expiresAt.ms >= now)
            => fileDatabase'[FirstWithId(fileDatabase, id)].downloadCount
                 = fileDatabase[FirstWithId(fileDatabase, id)].downloadCount + 1]_vars

\* after one landing visit and one completed direct download the counter is 1
C11_Witness ==
    /\ resp.op = "direct"
    /\ resp.status = 200
    /\ served = 3
    /\ Len(fileDatabase) = 1
    /\ fileDatabase[1].id = resp.id
    /\ fileDatabase[1].expiresAt.ms >= now
    /\ fileDatabase[1].downloadCount = 1

\* the records of the store and of the document
Records(db, file) ==
    {db[i] : i \in 1 .. Len(db)} \cup
    {LoadDatabase(file)[i] : i \in 1 .. Len(LoadDatabase(file))}

\* r and q are one record as far as its identity and its two dates go
SameDates(r, q) ==
    /\ r.id = q.id
    /\ r.storedName = q.storedName
    /\ r.uploadDate = q.uploadDate
    /\ r.expiresAt.ms = q.expiresAt.ms

\* the record at each position keeps its dates
DatesUnchanged ==
    /\ Len(fileDatabase') = Len(fileDatabase)
    /\ \A i \in 1 .. Len(fileDatabase) : SameDates(fileDatabase'[i], fileDatabase[i])

\* C12 (amended): the record an upload creates has uploadDate = the handler's
\* first clock reading and expiresAt = its second clock reading plus 7 days,
\* so expiresAt = uploadDate + 7 days + the time that passed between the two
\* readings; afterwards no operation changes the instant of uploadDate or of
\* expiresAt: every record of the store or of the document after a step is
\* the record just uploaded or has the dates it had before the step (a reload
\* only turns expiresAt from a Date into the ISO string of the same instant).
C12_DatesFixedAtUpload ==
    [][/\ \A f \in ClientFiles, uniqueId \in Ids, id \in Ids, drift \in 0 .. MaxDrift, out \in SaveOutcomes :
            PostUpload(f, uniqueId, id, drift, out)
            => LET r == fileDatabase'[Len(fileDatabase')]
               IN /\ r.uploadDate = ToISOString(NewDate(now))
                  /\ r.expiresAt.ms = now' + SevenDays
                  /\ r.expiresAt.ms = r.uploadDate.ms + SevenDays + drift
                  /\ \A i \in 1 .. Len(fileDatabase) : SameDates(fileDatabase'[i], fileDatabase[i])
       /\ \A r \in Records(fileDatabase', database_json') :
            \/ \E q \in Records(fileDatabase, database_json) : SameDates(r, q)
            \/ /\ served' = served + 1
               /\ Len(fileDatabase') = Len(fileDatabase) + 1
               /\ SameDates(r, fileDatabase'[Len(fileDatabase')])
               /\ r.uploadDate.ms = now
               /\ r.expiresAt.ms = now' + SevenDays
       /\ (\/ \E id \in Ids, out \in SaveOutcomes : GetLanding(id, out)
           \/ \E id \in Ids : GetApiDownload(id)
           \/ GetFiles
           \/ \E d \in {1, SevenDays} : Tick(d))
          => DatesUnchanged]_vars

\* C12 as claimed: expiresAt is uploadDate plus exactly 7 days for every record
C12_AsClaimed ==
    \A r \in Records(fileDatabase, database_json) :
        r.expiresAt.ms = r.uploadDate.ms + SevenDays

\* a record whose upload saw the clock move has been visited, saved and
\* reloaded, and still has the dates of its upload
C12_Witness ==
    /\ running
    /\ Len(fileDatabase) = 1
    /\ fileDatabase[1].downloadCount = 1
    /\ fileDatabase[1].uploadDate.ms = 0
    /\ fileDatabase[1].expiresAt = ToISOString(NewDate(SevenDays + 1))
    /\ now > fileDatabase[1].expiresAt.ms - SevenDays

\* a handler has mutated the store, saved it and answered 200
SavedUpdate ==
    \/ \E f \in ClientFiles, uniqueId \in Ids, id \in Ids, drift \in 0 .. MaxDrift :
         PostUpload(f, uniqueId, id, drift, "ok")
    \/ \E id \in Ids : GetLanding(id, "ok") /\ resp'.status = 200
    \/ \E id \in Ids : DeleteFile(id, "ok") /\ resp'.status = 200

C14_DirectDownloadIgnoresExpiry ==
    [][/\ \A id \in Ids :
            (/\ GetApiDownload(id)
             /\ WithId(fileDatabase, id) # {}
             /\ ExistsSync(uploads, fileDatabase[FirstWithId(fileDatabase, id)].storedName))
            => LET fileInfo == fileDatabase[FirstWithId(fileDatabase, id)]
               IN /\ resp' = resp
                  /\ \E s \in streams' \ streams :
                       /\ s.id = id
                       /\ s.path = fileInfo.storedName
                       /\ s.contentType = fileInfo.mimeType
                       /\ s.contentLength = fileInfo.size
                       /\ streams' = streams \cup {s}
       /\ \A s \in streams :
            (StreamOpen(s) /\ ExistsSync(uploads, s.path))
            => \E o \in streams' : o.phase = "open" /\ o.id = s.id /\ o.data = uploads[s.path]
       /\ \A s \in streams :
            StreamEnd(s) => /\ resp'.op = "direct"
                            /\ resp'.status = 200
                            /\ resp'.id = s.id
                            /\ resp'.body = s.data]_vars

\* an expired record has been downloaded directly: 200 with the ten bytes
C14_Witness ==
    /\ resp.op = "direct"
    /\ resp.status = 200
    /\ resp.body = <<0, 1, 2, 3, 4, 5, 6, 7, 8, 9>>
    /\ resp.len = 10
    /\ Len(fileDatabase) = 1
    /\ fileDatabase[1].id = resp.id
    /\ fileDatabase[1].expiresAt.ms < now
    /\ ExistsSync(uploads, fileDatabase[1].storedName)

BlobMissing(id) ==
    /\ WithId(fileDatabase, id) # {}
    /\ ~ExistsSync(uploads, fileDatabase[FirstWithId(fileDatabase, id)].storedName)

\* C16: a direct download of a record whose blob is absent is answered 404
\* and changes nothing, and as long as the record is not deleted the blob
\* stays absent, so that the request keeps being answered 404.
C16_MissingBlobStays404 ==
    [][\A id \in Ids :
         /\ (GetApiDownload(id) /\ BlobMissing(id))
            => /\ resp' = Response("direct", 404, id, NoUrl, 0, <<>>)
               /\ UNCHANGED <<fileDatabase, database_json, uploads, streams>>
         /\ (BlobMissing(id) /\ ~(\E out \in DeleteOutcomes : DeleteFile(id, out)))
            => (BlobMissing(id)' \/ WithId(fileDatabase', id) = {})]_vars

\* C17: a record leaves the running store only by a DELETE that is answered
\* 200 (a restart replaces the store as a whole).
C17_OnlySuccessfulDeleteRemoves ==
    [][(/\ ~Restart
        /\ \E r \in {fileDatabase[i] : i \in 1 .. Len(fileDatabase)} :
             \A j \in 1 .. Len(fileDatabase') :
                 [fileDatabase'[j] EXCEPT !.downloadCount = 0] # [r EXCEPT !.downloadCount = 0])
       => (resp'.op = "delete" /\ resp'.status = 200)]_vars

\* C18: a start that finds the document absent or unparsable goes on with an
\* empty store; with the store empty every landing, download or delete
\* request is answered 404 and changes nothing; and the first upload saved
\* after such a start writes a document holding that record alone.
C18_BadDocumentStartsEmpty ==
    [][/\ (Restart /\ database_json.state # "ok")
          => /\ running'
             /\ fileDatabase' = <<>>
             /\ UNCHANGED <<database_json, uploads>>
       /\ \A id \in Ids :
            (/\ fileDatabase = <<>>
             /\ \/ \E out \in SaveOutcomes : GetLanding(id, out)
                \/ GetApiDownload(id)
                \/ \E out \in DeleteOutcomes : DeleteFile(id, out))
            => /\ resp'.status = 404
               /\ UNCHANGED <<fileDatabase, database_json, uploads, streams>>
       /\ \A f \in ClientFiles, uniqueId \in Ids, id \in Ids, drift \in 0 .. MaxDrift :
            (/\ fileDatabase = <<>>
             /\ database_json.state # "ok"
             /\ PostUpload(f, uniqueId, id, drift, "ok"))
            => /\ Len(fileDatabase') = 1
               /\ fileDatabase'[1].id = id
               /\ database_json' = Document(JSONstringify(fileDatabase'))]_vars

\* after a start on an unparsable document the store is empty, the blob of
\* an earlier record is still in the directory, and a request was answered 404
C18_Witness ==
    /\ running
    /\ database_json.state = "malformed"
    /\ fileDatabase = <<>>
    /\ DOMAIN uploads # {}
    /\ served = 3
    /\ resp.op = "landing"
    /\ resp.status = 404

\* C19: no step ends the process: a direct download that has passed its
\* checks gets its stream opened and ended whatever a DELETE does meanwhile.
C19_DownloadSurvivesDelete ==
    [][/\ running => running'
       /\ \A s \in streams :
            StreamOpen(s) => \E o \in streams' : o.id = s.id /\ o.phase = "open"]_vars

====
